---------------------------- MODULE Spec2Model ----------------------------
(***************************************************************************)
(* Order synchronization engine of the Appmax -> Shopify bridge.           *)
(*                                                                         *)
(*   ingestion   WebhookController.handleAppmax  (webhook.controller.js)   *)
(*   queue       request_queue table             (db.js)                   *)
(*   mapping     orders table                    (db.js)                   *)
(*   dispatcher  ShopifyService.processQueue     (shopify.service.js)      *)
(*   orchestr.   ShopifyService.processOrder     (shopify.service.js)      *)
(*   lock table  ShopifyService.orderLocks       (shopify.service.js)      *)
(*                                                                         *)
(* The sink (Shopify) is the environment: a set of orders that changes     *)
(* only through the calls the service makes; any call may instead fail,    *)
(* without effect.                                                         *)
(*                                                                         *)
(* Spec      the program: webhooks arrive, the single dispatcher drains    *)
(*           the queue, one processOrder at a time.                        *)
(* SpecConc  processOrder called by two concurrent callers, the only       *)
(*           setting in which the order lock is contended.                 *)
(* SpecLoss  Spec plus sink orders disappearing at the sink (the 404       *)
(*           branch of findOrderByAppmaxId).                               *)
(* SpecDup   Spec plus sink orders created by another writer (the          *)
(*           duplicate-email branch of processOrder).                      *)
(* SpecLossDup  SpecLoss and SpecDup together.                             *)
(* SpecApi   Spec plus createOrUpdateOrder called with any status.         *)
(* SpecMem   the in-memory request-queue variant of the service;           *)
(*           SpecMemFair: its timer and its queue loop keep running.       *)
(* SpecRate  Spec plus sink calls answered with 429.                       *)
(* SpecRestart  Spec plus the process stopping and starting again, and     *)
(*           the mapping write failing after an accepted create.           *)
(* SpecWindow  SpecRestart plus sink orders leaving the window of the      *)
(*           order listing that the search reads.                          *)
(* SpecFair  Spec with a dispatcher that keeps running and promises that   *)
(*           keep polling.                                                 *)
(* SpecRestartFair  SpecRestart with a dispatcher that keeps running.      *)
(* SpecBusy  Spec plus one direct call of processOrder, so that the        *)
(*           dispatcher can meet a held order lock.                        *)
(***************************************************************************)
EXTENDS Integers, Sequences, FiniteSets, TLC

VARIABLES
    queue,        \* request_queue rows, in insertion (= id, = created_at) order
    orders,       \* orders table: rows [appmax_id, shopify_id]
    shopify,      \* sink orders: records [id, appmax_id, financial_status,
                  \* listed (still within the window of the order listing)]
    created,      \* number of sink orders ever created (the next sink id - 1)
    orderLocks,   \* this.orderLocks: the keys present in the Map
    processing,   \* this.processing
    batch,        \* rows fetched by the running pass and not yet handled
    inv,          \* processOrder invocations, per caller
    promises,     \* per queue row: the promise enqueueOrder returned for it
    http,         \* the HTTP exchange of the step just taken (NoHttp: none):
                  \* the event received, the status code answered (0: no
                  \* answer yet) and the sink calls the ingestion path made
    delivered,    \* webhooks received so far
    mem           \* the in-memory request-queue variant of the service (SpecMem):
                  \* its requestQueue, processing and queueTimeout

vars == <<queue, orders, shopify, created, orderLocks, processing, batch, inv,
          promises, http, delivered, mem>>

NULL == "null"

----------------------------------------------------------------------------
(* Bounds of the model. *)

MaxWebhooks == 2

\* The longest run of rate-limit answers to one sink call (SpecRate).
MaxReissues == 5

\* The number of sink orders that may have left the listing window (SpecWindow).
MaxUnlisted == 1

\* The number of sink ids issued to another writer next to lost orders (SpecLossDup).
MaxForeign == 1

\* The number of calls made to the in-memory variant of the service (SpecMem).
MaxCalls == 3

SourceIds == {1, 2}

----------------------------------------------------------------------------
(* Program constants. *)

RetryCeiling == 3
LockTimeout  == 5000
LockInterval == 100
MaxAttempts  == 5
MinRequestInterval == 500


----------------------------------------------------------------------------
(* Retry Queue Store: table request_queue (db.js). *)

\* INSERT INTO request_queue: attempts DEFAULT 0, processed_at and error NULL.
saveQueueRequest(q, appmaxId, eventType, status, financialStatus, requestData) ==
    Append(q, [appmax_id        |-> appmaxId,
               event_type       |-> eventType,
               status           |-> status,
               financial_status |-> financialStatus,
               request_data     |-> requestData,
               processed_at     |-> NULL,
               attempts         |-> 0,
               error            |-> NULL])

\* SELECT * FROM request_queue ORDER BY created_at ASC, without the WHERE clause.
getAllRequests(q) == [i \in 1..Len(q) |-> i]

\* SELECT ... WHERE processed_at IS NULL AND attempts < 3 ORDER BY created_at ASC
\* (the ids of the selected rows, oldest first).
getUnprocessedRequests(q) ==
    SelectSeq([i \in 1..Len(q) |-> i],
              LAMBDA i : q[i].processed_at = NULL /\ q[i].attempts < RetryCeiling)

\* The UPDATE with WHERE appmax_id = (the order of the row) instead of WHERE id = ?:
\* every row of the same source order is marked.
markRequestAsProcessedByOrder(q, requestId, error) ==
    [i \in 1..Len(q) |->
        IF q[i].appmax_id = q[requestId].appmax_id
        THEN [q[i] EXCEPT !.processed_at = "set",
                          !.attempts     = @ + 1,
                          !.error        = error]
        ELSE q[i]]

\* UPDATE request_queue SET processed_at = CURRENT_TIMESTAMP,
\*   attempts = attempts + 1, error = ? WHERE id = ?
markRequestAsProcessed(q, requestId, error) ==
    [q EXCEPT ![requestId] =
        [@ EXCEPT !.processed_at = "set",
                  !.attempts     = @ + 1,
                  !.error        = error]]

----------------------------------------------------------------------------
(* Mapping Store: table orders (db.js). *)

\* SELECT shopify_id FROM orders WHERE appmax_id = ?  (row ? row.shopify_id : null)
\* Sink ids are positive; 0 stands for null.
findShopifyOrderId(tbl, appmaxId) ==
    IF \E r \in tbl : r.appmax_id = appmaxId
    THEN (CHOOSE r \in tbl : r.appmax_id = appmaxId).shopify_id
    ELSE 0

\* A plain INSERT, without the ON CONFLICT(appmax_id) clause.
saveOrderMappingInsertOnly(tbl, appmaxId, shopifyId) ==
    tbl \cup {[appmax_id |-> appmaxId, shopify_id |-> shopifyId]}

\* INSERT INTO orders ... ON CONFLICT(appmax_id) DO UPDATE SET shopify_id = ...
saveOrderMapping(tbl, appmaxId, shopifyId) ==
    IF \E r \in tbl : r.appmax_id = appmaxId
    THEN {IF r.appmax_id = appmaxId THEN [r EXCEPT !.shopify_id = shopifyId] ELSE r
            : r \in tbl}
    ELSE tbl \cup {[appmax_id |-> appmaxId, shopify_id |-> shopifyId]}


----------------------------------------------------------------------------
(* The sink as the service's calls see it. *)

\* GET /orders/{id}.json: the order, or none (404).
SinkGet(s, id) == {o \in s : o.id = id}

\* GET /orders.json?created_at_min=(30 days ago)&limit=250, then the first order
\* whose note attribute appmax_id equals the source id (findOrderByAppmaxId, the
\* listing branch): only an order still in that listing can be found.
SinkSearch(s, appmaxId) == {o \in s : o.appmax_id = appmaxId /\ o.listed}

\* POST /orders.json with the body formatOrderData built.
SinkCreate(s, id, orderData) ==
    s \cup {[id               |-> id,
             appmax_id        |-> orderData.appmax_id,
             financial_status |-> orderData.financial_status,
             listed           |-> TRUE]}

\* orderMarkAsPaid / orderCancel / refundCreate on an existing order.
SinkSetFinancial(s, id, f) ==
    {IF o.id = id THEN [o EXCEPT !.financial_status = f] ELSE o : o \in s}

\* What a failing sink call answers.
FaultKinds == {"http5xx", "http422email"}

\* The outcomes a sink call may have.
Outcomes == {"ok"} \cup FaultKinds

\* The response interceptor: an HTTP error response becomes an AppError carrying
\* the status code; the AppError has no "response" property.
Intercept(kind) ==
    [appError       |-> TRUE,
     statusCode     |-> IF kind = "http422email" THEN 422
                        ELSE IF kind = "http404" THEN 404 ELSE 500,
     responseStatus |-> 0,
     emailErrors    |-> FALSE,
     message        |-> kind]

\* A test that takes every error for a retryable one.
isRetryableErrorAlways(error) == TRUE

\* isRetryableError: [408, 429, 500, 502, 503, 504].includes(error.response?.status)
isRetryableError(error) ==
    error.responseStatus \in {408, 429, 500, 502, 503, 504}

\* makeRequest: const backoff = Math.pow(2, attempt) * 100
Backoff(attempt) == (2 ^ attempt) * 100

\* makeRequest's catch: retry while attempt < maxAttempts and the error is retryable.
makeRequestRetries(error, attempt) ==
    attempt < MaxAttempts /\ isRetryableError(error)

\* processOrder's test for the duplicate-email conflict on the create call.
isDuplicateEmail(error) ==
    error.responseStatus = 422 /\ error.emailErrors

\* The two 404 tests of findOrderByAppmaxId.
isNotFound(error) ==
    error.responseStatus = 404 \/ error.statusCode = 404

----------------------------------------------------------------------------
(* Order payload to sink order (formatOrderData). *)

\* A table that maps every requested financial state to pending.
mapFinancialStatusAlwaysPending(financialStatus) == "pending"

\* statusMap[status] || 'pending' (formatOrderData reads the same table:
\* shopifyStatus.financial[financialStatus] || 'pending')
mapFinancialStatus(financialStatus) ==
    CASE financialStatus = "pending"   -> "pending"
      [] financialStatus = "paid"      -> "paid"
      [] financialStatus = "refunded"  -> "refunded"
      [] financialStatus = "cancelled" -> "voided"
      [] OTHER                         -> "pending"

\* The note attribute appmax_id and financial_status of the create body.
formatOrderData(appmaxOrder, status, financialStatus) ==
    [appmax_id        |-> appmaxOrder.id,
     financial_status |-> mapFinancialStatus(financialStatus)]


----------------------------------------------------------------------------
(* Ingestion: WebhookController.handleAppmax and its handlers. *)

PaidEvents    == {"OrderApproved", "OrderPaid", "OrderPaidByPix"}
PendingEvents == {"OrderAuthorized", "PixGenerated", "OrderIntegrated",
                  "OrderBilletCreated", "OrderPixCreated"}
CancelEvents  == {"PaymentNotAuthorized", "PixExpired", "BoletoExpired"}
LoggedEvents  == {"PendingIntegration"}
OtherEvents   == {"CustomerInterested", "CustomerCreated", "SomethingElse"}

Events == PaidEvents \cup PendingEvents \cup CancelEvents \cup LoggedEvents
            \cup OtherEvents
            \cup {"OrderRefund", "ChargebackDispute", "ChargebackWon"}

\* The order payloads a webhook may carry, by the id they name: 0 is a payload
\* without id.
Payloads == [id : SourceIds \cup {0}]

\* A switch whose every case enqueues the order as pending.
RouteQueuesEveryEvent(event) ==
    [call |-> "createOrUpdateOrder", status |-> "pending", financialStatus |-> "pending"]

\* The switch of handleAppmax followed by the handler it selects: what the handler
\* calls on the service, and with which status and financialStatus.
Route(event) ==
    CASE event \in PaidEvents ->
            [call |-> "createOrUpdateOrder", status |-> "paid", financialStatus |-> "paid"]
      [] event \in PendingEvents ->
            [call |-> "createOrUpdateOrder", status |-> "pending", financialStatus |-> "pending"]
      [] event = "ChargebackDispute" ->
            [call |-> "createOrUpdateOrder", status |-> "under_review", financialStatus |-> "pending"]
      [] event = "ChargebackWon" ->
            [call |-> "createOrUpdateOrder", status |-> "authorized", financialStatus |-> "paid"]
      [] event = "OrderRefund" ->
            [call |-> "refundOrder", status |-> NULL, financialStatus |-> NULL]
      [] event \in CancelEvents ->
            [call |-> "cancelOrder", status |-> NULL, financialStatus |-> NULL]
      [] OTHER ->
            [call |-> "log", status |-> NULL, financialStatus |-> NULL]

\* appmaxOrder.event || 'unknown': the payloads carry no event field.
EventTypeOf(appmaxOrder) == "unknown"

\* One HTTP exchange: the event received (NULL: none), the status code answered
\* (0: no answer yet) and the number of sink calls the ingestion path made for it.
Http(event, status, sinkCalls) ==
    [event |-> event, status |-> status, sinkCalls |-> sinkCalls]

NoHttp == Http(NULL, 0, 0)

\* An enqueueOrder that resolves as soon as the row is saved.
enqueueOrderResolvesAtOnce(event, appmaxOrder, status, financialStatus) ==
    IF appmaxOrder.id = 0
    THEN /\ http' = Http(event, 400, 0)
         /\ UNCHANGED <<queue, promises>>
    ELSE /\ queue' = saveQueueRequest(queue, appmaxOrder.id, EventTypeOf(appmaxOrder),
                                      status, financialStatus, appmaxOrder)
         /\ promises' = Append(promises, "resolved")
         /\ http' = Http(event, 200, 0)

\* enqueueOrder up to the row being saved; the returned promise then polls the row
\* and the handler awaits it, so nothing is answered yet.
enqueueOrder(event, appmaxOrder, status, financialStatus) ==
    IF appmaxOrder.id = 0
    THEN /\ http' = Http(event, 400, 0)
         /\ UNCHANGED <<queue, promises>>
    ELSE /\ queue' = saveQueueRequest(queue, appmaxOrder.id, EventTypeOf(appmaxOrder),
                                      status, financialStatus, appmaxOrder)
         /\ promises' = Append(promises, "polling")
         /\ http' = Http(event, 0, 0)

\* handleOrderRefund / handlePaymentNotAuthorized / handlePixExpired /
\* handleBoletoExpired: the handler passes the payload where the service expects a
\* sink order id, so the sink call names no order: the sink answers with an error
\* (or the call fails on its way), nothing changes at the sink and the error is
\* answered to the sender.
DirectCall(event, call) ==
    \E out \in Outcomes :
        http' = Http(event,
                     IF out # "ok" THEN Intercept(out).statusCode
                     ELSE IF call = "refundOrder" THEN 404 ELSE 400,
                     1)

\* One webhook, from the request to the response or to the row being enqueued.
handleAppmax(event, hasData, data) ==
    /\ delivered < MaxWebhooks
    /\ delivered' = delivered + 1
    /\ UNCHANGED mem
    /\ UNCHANGED <<orders, shopify, created, orderLocks, processing, batch, inv>>
    /\ IF event = NULL \/ ~hasData
       THEN /\ http' = Http(event, 400, 0)
            /\ UNCHANGED <<queue, promises>>
       ELSE LET r == Route(event) IN
            CASE r.call = "createOrUpdateOrder" ->
                    enqueueOrder(event, data, r.status, r.financialStatus)
              [] r.call \in {"refundOrder", "cancelOrder"} ->
                    /\ DirectCall(event, r.call)
                    /\ UNCHANGED <<queue, promises>>
              [] OTHER ->
                    /\ http' = Http(event, 200, 0)
                    /\ UNCHANGED <<queue, promises>>

\* A checkStatus that settles only on a row processed without error and polls on
\* otherwise.
checkStatusResolvesOnly(requestId) ==
    /\ promises[requestId] = "polling"
    /\ queue[requestId].processed_at # NULL
    /\ queue[requestId].error = NULL
    /\ promises' = [promises EXCEPT ![requestId] = "resolved"]
    /\ http' = Http(NULL, 200, 0)
    /\ UNCHANGED <<delivered, mem>>
    /\ UNCHANGED <<queue, orders, shopify, created, orderLocks, processing, batch, inv>>

\* checkStatus of enqueueOrder, once the row is processed: the promise resolves or
\* rejects and the handler answers 200 or (the rejection is no AppError) 500.
checkStatus(requestId) ==
    /\ promises[requestId] = "polling"
    /\ queue[requestId].processed_at # NULL
    /\ promises' = [promises EXCEPT ![requestId] =
                       IF queue[requestId].error # NULL THEN "rejected" ELSE "resolved"]
    /\ http' = Http(NULL, IF queue[requestId].error # NULL THEN 500 ELSE 200, 0)
    /\ UNCHANGED <<delivered, mem>>
    /\ UNCHANGED <<queue, orders, shopify, created, orderLocks, processing, batch, inv>>

----------------------------------------------------------------------------
(* Order Lock Table and Sync Orchestrator: processOrder, one step per await. *)

\* The fields of an invocation: its position, its arguments, its locals
\* (existing, current, waited, attempt), what it has done (ops, resolved, result),
\* reissued, the number of times the response interceptor has sent the call in
\* progress again, and sinceCall, the time the service itself has let pass (timers it awaited)
\* since the invocation's previous sink call, counted up to the minimum interval;
\* before its first call, the interval the row loop waits between rows.
Idle ==
    [pc |-> "idle", id |-> 0, status |-> NULL,
     financialStatus |-> NULL, existing |-> 0, current |-> NULL, waited |-> 0,
     attempt |-> 1, ops |-> {}, resolved |-> NULL, result |-> NULL,
     sinceCall |-> MinRequestInterval, reissued |-> 0]

\* The positions at which an invocation holds the order lock.
Critical == {"find", "refind", "create", "get", "put", "status"}

\* processOrder({appmaxOrder, status, financialStatus}) is called.
Begin(appmaxOrder, status, financialStatus) ==
    [Idle EXCEPT !.pc = "lock", !.id = appmaxOrder.id,
                 !.status = status, !.financialStatus = financialStatus]

\* releaseLock: this.orderLocks.delete(orderId)
releaseLock(locks, orderId) == locks \ {orderId}

\* The release placed after the try block instead of in its finally: skipped
\* when the invocation throws.
processOrderReleaseOnSuccess(locks, orderId, result) ==
    IF result = "ok" THEN releaseLock(locks, orderId) ELSE locks

\* The finally block of processOrder: the lock is released whatever the result.
processOrderFinally(locks, orderId, result) == releaseLock(locks, orderId)

\* An invocation past lockOrder ends: the finally block runs, then the result or
\* the error goes to the caller.
Finish(w, rec, result) ==
    /\ inv' = [inv EXCEPT ![w] = [rec EXCEPT !.pc = "done", !.result = result,
                                             !.existing = 0, !.current = NULL,
                                             !.attempt = 1]]
    /\ orderLocks' = processOrderFinally(orderLocks, rec.id, result)

\* lockOrder with the test and the claim in two steps.
lockOrderTestThenSet(w) ==
    LET rec == inv[w] IN
    /\ rec.pc \in {"lock", "wait", "claim"}
    /\ UNCHANGED <<queue, orders, shopify, created, processing, batch, promises>>
    /\ http' = NoHttp
    /\ UNCHANGED <<delivered, mem>>
    /\ IF rec.pc = "claim"
       THEN /\ orderLocks' = orderLocks \cup {rec.id}
            /\ inv' = [inv EXCEPT ![w].pc = "find"]
       ELSE /\ UNCHANGED orderLocks
            /\ IF rec.id \in orderLocks
               THEN inv' = [inv EXCEPT ![w].pc = "wait"]
               ELSE inv' = [inv EXCEPT ![w].pc = "claim"]

\* lockOrder called inside the inner try: on the timeout the finally block runs
\* and deletes the key the caller never set.
lockOrderInsideTry(w) ==
    LET rec    == inv[w]
        waited == IF rec.pc = "wait" THEN rec.waited + LockInterval ELSE rec.waited
    IN
    /\ rec.pc \in {"lock", "wait"}
    /\ UNCHANGED <<queue, orders, shopify, created, processing, batch, promises>>
    /\ http' = NoHttp
    /\ UNCHANGED <<delivered, mem>>
    /\ IF rec.pc = "wait" /\ waited >= LockTimeout
       THEN /\ inv' = [inv EXCEPT ![w] = [rec EXCEPT !.pc = "done", !.waited = waited,
                                                     !.result = "lockTimeout"]]
            /\ orderLocks' = releaseLock(orderLocks, rec.id)
       ELSE IF rec.id \in orderLocks
       THEN /\ inv' = [inv EXCEPT ![w] = [rec EXCEPT !.pc = "wait", !.waited = waited]]
            /\ UNCHANGED orderLocks
       ELSE /\ inv' = [inv EXCEPT ![w] = [rec EXCEPT !.pc = "find", !.waited = 0]]
            /\ orderLocks' = orderLocks \cup {rec.id}

\* lockOrder: while the key is in the map, sleep one interval and give up once the
\* timeout is reached; then set the key. The test and the set are one step.
lockOrder(w) ==
    LET rec    == inv[w]
        waited == IF rec.pc = "wait" THEN rec.waited + LockInterval ELSE rec.waited
    IN
    /\ rec.pc \in {"lock", "wait"}
    /\ UNCHANGED <<queue, orders, shopify, created, processing, batch, promises>>
    /\ http' = NoHttp
    /\ UNCHANGED <<delivered, mem>>
    /\ IF rec.pc = "wait" /\ waited >= LockTimeout
       THEN \* thrown before the inner try: no finally, no release
            /\ inv' = [inv EXCEPT ![w] = [rec EXCEPT !.pc = "done", !.waited = waited,
                                                     !.result = "lockTimeout"]]
            /\ UNCHANGED orderLocks
       ELSE IF rec.id \in orderLocks
       THEN /\ inv' = [inv EXCEPT ![w] = [rec EXCEPT !.pc = "wait", !.waited = waited]]
            /\ UNCHANGED orderLocks
       ELSE /\ inv' = [inv EXCEPT ![w] = [rec EXCEPT !.pc = "find", !.waited = 0]]
            /\ orderLocks' = orderLocks \cup {rec.id}

\* findOrderByAppmaxId that takes every mapped id for a stale one.
findOrderMappedIsStale(tbl, s, appmaxId) ==
    IF findShopifyOrderId(tbl, appmaxId) # 0 THEN 0
    ELSE IF SinkSearch(s, appmaxId) # {}
         THEN (CHOOSE o \in SinkSearch(s, appmaxId) : TRUE).id
         ELSE 0

\* A findOrderByAppmaxId that goes on to the search when the mapped order is gone.
findOrderSearchesOn404(tbl, s, appmaxId) ==
    LET shopifyId == findShopifyOrderId(tbl, appmaxId) IN
    IF shopifyId # 0 /\ SinkGet(s, shopifyId) # {} THEN shopifyId
    ELSE IF SinkSearch(s, appmaxId) # {}
         THEN (CHOOSE o \in SinkSearch(s, appmaxId) : TRUE).id
         ELSE 0

\* findOrderByAppmaxId when its sink call is answered: the id of the sink order it
\* returns, 0 for none. A mapped id is fetched by id (404: none, without a search);
\* only an unmapped source id is searched for in the listing.
findOrderByAppmaxId(tbl, s, appmaxId) ==
    LET shopifyId == findShopifyOrderId(tbl, appmaxId) IN
    IF shopifyId # 0
    THEN IF SinkGet(s, shopifyId) # {} THEN shopifyId ELSE 0
    ELSE IF SinkSearch(s, appmaxId) # {}
         THEN (CHOOSE o \in SinkSearch(s, appmaxId) : TRUE).id
         ELSE 0

\* A findOrderByAppmaxId that returns the order the search found without saving it.
findOrderKeepsMapping(tbl, s, appmaxId) == tbl

\* The mapping write of findOrderByAppmaxId: an order found by the search is saved.
findOrderSavesMapping(tbl, s, appmaxId) ==
    IF findShopifyOrderId(tbl, appmaxId) = 0 /\ SinkSearch(s, appmaxId) # {}
    THEN saveOrderMapping(tbl, appmaxId, findOrderByAppmaxId(tbl, s, appmaxId))
    ELSE tbl

\* makeRequest's retry: the backoff is awaited, then the call is made again.
AfterBackoff(rec) ==
    [rec EXCEPT !.attempt   = @ + 1,
                !.sinceCall = IF Backoff(rec.attempt) < MinRequestInterval
                              THEN Backoff(rec.attempt) ELSE MinRequestInterval]

\* Resolution (first, or again after the duplicate-email conflict), then either on
\* to updateOrder or, with no order found, formatOrderData and on to the create.
resolveOrder(w) ==
    LET rec == [inv[w] EXCEPT !.sinceCall = 0, !.reissued = 0] IN
    /\ rec.pc \in {"find", "refind"}
    /\ UNCHANGED <<queue, shopify, created, processing, batch, promises>>
    /\ http' = NoHttp
    /\ UNCHANGED <<delivered, mem>>
    /\ \E out \in Outcomes, lineItems \in BOOLEAN :
          LET failed   == out # "ok"
              error    == Intercept(out)
              existing == IF failed THEN 0
                          ELSE findOrderByAppmaxId(orders, shopify, rec.id)
              how      == IF failed THEN "none"
                          ELSE IF existing = 0 THEN "none"
                          ELSE IF findShopifyOrderId(orders, rec.id) # 0 THEN "mapping"
                          ELSE "search"
          IN
          /\ orders' = IF failed THEN orders
                       ELSE findOrderSavesMapping(orders, shopify, rec.id)
          /\ IF failed /\ makeRequestRetries(error, rec.attempt)
             THEN /\ inv' = [inv EXCEPT ![w] = AfterBackoff(rec)]
                  /\ UNCHANGED orderLocks
             ELSE IF failed /\ ~isNotFound(error)
             THEN Finish(w, rec, out)
             ELSE IF existing # 0
             THEN /\ inv' = [inv EXCEPT ![w] = [rec EXCEPT !.pc = "get", !.attempt = 1,
                                     !.existing = existing, !.resolved = how]]
                  /\ UNCHANGED orderLocks
             ELSE IF rec.pc = "refind"
             THEN Finish(w, rec, "http422email")
             ELSE IF ~lineItems
             THEN Finish(w, [rec EXCEPT !.resolved = how], "noProducts")
             ELSE /\ inv' = [inv EXCEPT ![w] = [rec EXCEPT !.pc = "create", !.attempt = 1,
                                                           !.resolved = how]]
                  /\ UNCHANGED orderLocks

\* The create call and, when the sink accepts it, the mapping write.
createOrder(w) ==
    LET rec == [inv[w] EXCEPT !.ops = @ \cup {"POST"}, !.sinceCall = 0,
                              !.reissued = 0] IN
    /\ rec.pc = "create"
    /\ UNCHANGED <<queue, processing, batch, promises>>
    /\ http' = NoHttp
    /\ UNCHANGED <<delivered, mem>>
    /\ \E out \in Outcomes :
          LET error == Intercept(out) IN
          IF out = "ok"
          THEN /\ created' = created + 1
               /\ shopify' = SinkCreate(shopify, created + 1,
                               formatOrderData([id |-> rec.id], rec.status,
                                               rec.financialStatus))
               /\ orders' = saveOrderMapping(orders, rec.id, created + 1)
               /\ Finish(w, [rec EXCEPT !.existing = created + 1], "ok")
          ELSE /\ UNCHANGED <<orders, shopify, created>>
               /\ IF makeRequestRetries(error, rec.attempt)
                  THEN /\ inv' = [inv EXCEPT ![w] = AfterBackoff(rec)]
                       /\ UNCHANGED orderLocks
                  ELSE IF isDuplicateEmail(error)
                  THEN /\ inv' = [inv EXCEPT ![w] = [rec EXCEPT !.pc = "refind",
                                                                !.attempt = 1]]
                       /\ UNCHANGED orderLocks
                  ELSE Finish(w, rec, out)


\* The status branch of updateOrder without its guards on the current state.
updateOrderMutationUnguarded(status, financialStatus, current) ==
    IF status = "cancelled" \/ financialStatus = "cancelled" THEN "cancel"
    ELSE IF financialStatus = "refunded" THEN "refund"
    ELSE "markPaid"

\* The status branch of updateOrder: the mutation it calls, given the requested
\* states and the financial_status getOrder returned.
updateOrderMutation(status, financialStatus, current) ==
    IF status = "cancelled" \/ financialStatus = "cancelled"
    THEN IF current # "voided" THEN "cancel" ELSE "none"
    ELSE IF financialStatus = "refunded"
    THEN IF current # "refunded" THEN "refund" ELSE "none"
    ELSE IF financialStatus = "paid"
    THEN IF current \notin {"paid", "refunded", "voided"} THEN "markPaid" ELSE "none"
    ELSE "none"

\* What the sink makes of the order's financial state on each mutation.
MutationResult(mutation) ==
    CASE mutation = "cancel"   -> "voided"
      [] mutation = "refund"   -> "refunded"
      [] mutation = "markPaid" -> "paid"

\* updateOrder, first await: getOrder reads the current financial_status.
getOrder(w) ==
    LET rec == [inv[w] EXCEPT !.sinceCall = 0, !.reissued = 0] IN
    /\ rec.pc = "get"
    /\ UNCHANGED <<queue, orders, shopify, created, processing, batch, promises>>
    /\ http' = NoHttp
    /\ UNCHANGED <<delivered, mem>>
    /\ \E out \in Outcomes :
          LET found == SinkGet(shopify, rec.existing) IN
          /\ IF out # "ok" /\ makeRequestRetries(Intercept(out), rec.attempt)
             THEN /\ inv' = [inv EXCEPT ![w] = AfterBackoff(rec)]
                  /\ UNCHANGED orderLocks
             ELSE IF out # "ok"
             THEN Finish(w, rec, out)
             ELSE IF found = {}
             THEN Finish(w, rec, "http404")
             ELSE /\ inv' = [inv EXCEPT ![w] = [rec EXCEPT !.pc = "put", !.attempt = 1,
                                 !.current = (CHOOSE o \in found : TRUE).financial_status]]
                  /\ UNCHANGED orderLocks

\* updateOrder, second await: PUT /orders/{id}.json with tags and note attributes;
\* with no mutation to call the invocation returns the updated order.
putOrder(w) ==
    LET rec      == [inv[w] EXCEPT !.ops = @ \cup {"PUT"}, !.sinceCall = 0,
                                   !.reissued = 0]
        mutation == updateOrderMutation(rec.status, rec.financialStatus, rec.current)
    IN
    /\ rec.pc = "put"
    /\ UNCHANGED <<queue, orders, shopify, created, processing, batch, promises>>
    /\ http' = NoHttp
    /\ UNCHANGED <<delivered, mem>>
    /\ \E out \in Outcomes :
          /\ IF out # "ok" /\ makeRequestRetries(Intercept(out), rec.attempt)
             THEN /\ inv' = [inv EXCEPT ![w] = AfterBackoff(rec)]
                  /\ UNCHANGED orderLocks
             ELSE IF out # "ok"
             THEN Finish(w, rec, out)
             ELSE IF SinkGet(shopify, rec.existing) = {}
             THEN Finish(w, rec, "http404")
             ELSE IF mutation = "none"
             THEN Finish(w, rec, "ok")
             ELSE /\ inv' = [inv EXCEPT ![w] = [rec EXCEPT !.pc = "status", !.attempt = 1]]
                  /\ UNCHANGED orderLocks

\* An updateOrder in which a failing markOrderAsPaid fails the update like a
\* failing cancelOrder or refundOrder.
updateOrderThrowsEveryFailure(mutation, accepted, out) ==
    IF accepted THEN "ok"
    ELSE IF out = "ok" THEN "userErrors" ELSE out

\* The result of updateOrder after its status mutation: a failing markOrderAsPaid
\* is caught and logged, a failing cancelOrder or refundOrder reaches the outer
\* catch and is thrown on (out = "ok" but not accepted: the answer carries
\* userErrors).
updateOrderResult(mutation, accepted, out) ==
    IF accepted \/ mutation = "markPaid" THEN "ok"
    ELSE IF out = "ok" THEN "userErrors" ELSE out

\* updateOrder, third await: cancelOrder, refundOrder or markOrderAsPaid through
\* GraphQL. A failing markOrderAsPaid is logged and swallowed.
mutateOrder(w) ==
    LET mutation == updateOrderMutation(inv[w].status, inv[w].financialStatus,
                                        inv[w].current)
        rec      == [inv[w] EXCEPT !.ops = @ \cup {mutation}, !.sinceCall = 0]
    IN
    /\ rec.pc = "status"
    /\ UNCHANGED <<queue, orders, created, processing, batch, promises>>
    /\ http' = NoHttp
    /\ UNCHANGED <<delivered, mem>>
    /\ \E out \in Outcomes :
          LET accepted == out = "ok" /\ SinkGet(shopify, rec.existing) # {} IN
          /\ shopify' = IF accepted
                        THEN SinkSetFinancial(shopify, rec.existing,
                                              MutationResult(mutation))
                        ELSE shopify
          /\ Finish(w, rec, updateOrderResult(mutation, accepted, out))

----------------------------------------------------------------------------
(* Queue Dispatcher: startQueueProcessing / processQueue. *)

\* A pass begins: the busy flag is set and the pending rows are fetched.
processQueue ==
    /\ ~processing
    /\ inv["d"].pc = "idle"
    /\ batch' = getUnprocessedRequests(queue)
    /\ batch' # <<>>
    /\ processing' = TRUE
    /\ UNCHANGED <<queue, orders, shopify, created, orderLocks, inv, promises>>
    /\ http' = NoHttp
    /\ UNCHANGED <<delivered, mem>>

\* The next row of the batch is handed to processOrder.
dispatchRow ==
    /\ processing
    /\ batch # <<>>
    /\ inv["d"].pc = "idle"
    /\ LET request == queue[Head(batch)] IN
       inv' = [inv EXCEPT !["d"] = Begin(request.request_data, request.status,
                                         request.financial_status)]
    /\ UNCHANGED <<queue, orders, shopify, created, orderLocks, processing, batch, promises>>
    /\ http' = NoHttp
    /\ UNCHANGED <<delivered, mem>>

\* A row loop that gives up the pass when processOrder throws.
recordOutcomeAbortsOnError ==
    /\ processing
    /\ inv["d"].pc = "done"
    /\ queue' = markRequestAsProcessed(queue, Head(batch),
                    IF inv["d"].result = "ok" THEN NULL ELSE inv["d"].result)
    /\ batch' = IF inv["d"].result = "ok" THEN Tail(batch) ELSE <<>>
    /\ processing' = (batch' # <<>>)
    /\ inv' = [inv EXCEPT !["d"] = Idle]
    /\ UNCHANGED <<orders, shopify, created, orderLocks, promises>>
    /\ http' = NoHttp
    /\ UNCHANGED <<delivered, mem>>

\* A row loop that retries a failed request by enqueuing it again as a new row.
recordOutcomeRequeuesFailure ==
    /\ processing
    /\ inv["d"].pc = "done"
    /\ LET marked == markRequestAsProcessed(queue, Head(batch),
                        IF inv["d"].result = "ok" THEN NULL ELSE inv["d"].result)
           row    == queue[Head(batch)]
       IN
       IF inv["d"].result = "ok"
       THEN queue' = marked /\ UNCHANGED promises
       ELSE /\ queue' = saveQueueRequest(marked, row.appmax_id, row.event_type,
                                         row.status, row.financial_status,
                                         row.request_data)
            /\ promises' = Append(promises, "polling")
    /\ batch' = Tail(batch)
    /\ processing' = (batch' # <<>>)
    /\ inv' = [inv EXCEPT !["d"] = Idle]
    /\ UNCHANGED <<orders, shopify, created, orderLocks>>
    /\ http' = NoHttp
    /\ UNCHANGED <<delivered, mem>>

\* processOrder returned or threw: the row is marked, and after the last row of the
\* batch the busy flag is cleared.
recordOutcome ==
    /\ processing
    /\ inv["d"].pc = "done"
    /\ queue' = markRequestAsProcessed(queue, Head(batch),
                    IF inv["d"].result = "ok" THEN NULL ELSE inv["d"].result)
    /\ batch' = Tail(batch)
    /\ processing' = (batch' # <<>>)
    /\ inv' = [inv EXCEPT !["d"] = Idle]
    /\ UNCHANGED <<orders, shopify, created, orderLocks, promises>>
    /\ http' = NoHttp
    /\ UNCHANGED <<delivered, mem>>

----------------------------------------------------------------------------
(* Callers of processOrder other than the dispatcher (SpecConc). *)

Statuses == {<<"paid", "paid">>, <<"pending", "pending">>,
             <<"cancelled", "cancelled">>}

Call(w, id, st) ==
    /\ inv[w].pc = "idle"
    /\ inv' = [inv EXCEPT ![w] = Begin([id |-> id], st[1], st[2])]
    /\ UNCHANGED <<queue, orders, shopify, created, orderLocks, processing, batch, promises>>
    /\ http' = NoHttp
    /\ UNCHANGED <<delivered, mem>>

Return(w) ==
    /\ inv[w].pc = "done"
    /\ inv' = [inv EXCEPT ![w] = Idle]
    /\ UNCHANGED <<queue, orders, shopify, created, orderLocks, processing, batch, promises>>
    /\ http' = NoHttp
    /\ UNCHANGED <<delivered, mem>>

----------------------------------------------------------------------------
(* A caller other than the webhook handlers (SpecApi): createOrUpdateOrder takes
   any status and financialStatus, the cancelled and refunded ones that
   updateOrder tests for included, and enqueues the order. *)

ApiStatuses == Statuses \cup {<<"refunded", "refunded">>}

createOrUpdateOrder(id, st) ==
    /\ delivered < MaxWebhooks
    /\ delivered' = delivered + 1
    /\ UNCHANGED mem
    /\ enqueueOrder(NULL, [id |-> id], st[1], st[2])
    /\ UNCHANGED <<orders, shopify, created, orderLocks, processing, batch, inv>>

----------------------------------------------------------------------------
(* The sink loses an order (deleted by the merchant at the sink). *)

SinkLosesOrder(o) ==
    /\ o \in shopify
    /\ shopify' = shopify \ {o}
    /\ UNCHANGED <<queue, orders, created, orderLocks, processing, batch, inv, promises>>
    /\ http' = NoHttp
    /\ UNCHANGED <<delivered, mem>>

----------------------------------------------------------------------------
(* Another writer (a second instance of the service, a create whose answer was
   lost) creates at the sink an order carrying a source id that has none yet. *)

SinkGainsOrder(id) ==
    /\ SinkSearch(shopify, id) = {}
    /\ created' = created + 1
    /\ shopify' = SinkCreate(shopify, created + 1, formatOrderData([id |-> id], "pending", "pending"))
    /\ UNCHANGED <<queue, orders, orderLocks, processing, batch, inv, promises>>
    /\ http' = NoHttp
    /\ UNCHANGED <<delivered, mem>>

----------------------------------------------------------------------------
(* The sink answers a REST call with 429 (SpecRate). *)

\* The REST calls of processOrder, all made through this.client and its response
\* interceptor (the status mutations go through graphqlClient, which has none).
RestCalls == {"find", "refind", "create", "get", "put"}

\* The response interceptor on status 429: it sleeps minRequestInterval and sends
\* the same request again through the same client; makeRequest sees neither the
\* answer nor the new request.
rateLimited(w) ==
    /\ inv[w].pc \in RestCalls
    /\ inv[w].reissued < MaxReissues
    /\ inv' = [inv EXCEPT ![w].reissued = @ + 1,
                          ![w].sinceCall = MinRequestInterval]
    /\ UNCHANGED <<queue, orders, shopify, created, orderLocks, processing, batch,
                   promises>>
    /\ http' = NoHttp
    /\ UNCHANGED <<delivered, mem>>

----------------------------------------------------------------------------
(* A sink order leaves the window of the listing that the search reads: it is
   now older than 30 days, or 250 newer orders precede it. *)

SinkOrderLeavesListing(o) ==
    /\ o \in shopify
    /\ o.listed
    /\ Cardinality({u \in shopify : ~u.listed}) < MaxUnlisted
    /\ shopify' = (shopify \ {o}) \cup {[o EXCEPT !.listed = FALSE]}
    /\ UNCHANGED <<queue, orders, created, orderLocks, processing, batch, inv, promises>>
    /\ http' = NoHttp
    /\ UNCHANGED <<delivered, mem>>

----------------------------------------------------------------------------
(* The process stops and is started again; the mapping write fails (SpecRestart). *)

\* What a POST or a status mutation that was in flight when the process stopped
\* has done at the sink: the sink either performed it or never saw it.
InFlightEffect(rec, applied) ==
    IF ~applied THEN shopify
    ELSE IF rec.pc = "create"
    THEN SinkCreate(shopify, created + 1,
                    formatOrderData([id |-> rec.id], rec.status, rec.financialStatus))
    ELSE IF rec.pc = "status" /\ SinkGet(shopify, rec.existing) # {}
    THEN SinkSetFinancial(shopify, rec.existing,
            MutationResult(updateOrderMutation(rec.status, rec.financialStatus,
                                               rec.current)))
    ELSE shopify

\* A restart that finds the busy flag as the old process left it (a flag kept with
\* the tables instead of in the service object).
RestartKeepsBusyFlag ==
    /\ \E applied \in BOOLEAN :
          /\ shopify' = InFlightEffect(inv["d"], applied)
          /\ created' = IF shopify' # shopify /\ inv["d"].pc = "create"
                        THEN created + 1 ELSE created
    /\ inv' = [w \in DOMAIN inv |-> Idle]
    /\ orderLocks' = {}
    /\ processing' = processing
    /\ batch' = <<>>
    /\ promises' = [i \in 1..Len(promises) |->
                       IF promises[i] = "polling" THEN "gone" ELSE promises[i]]
    /\ UNCHANGED <<queue, orders>>
    /\ http' = NoHttp
    /\ UNCHANGED <<delivered, mem>>

\* The process stops at any point and is started again: the constructor runs
\* (processing = false, orderLocks = new Map()), the promises of enqueueOrder and
\* the invocation in progress are gone with the old process, the two tables are
\* as last written.
Restart ==
    /\ \E applied \in BOOLEAN :
          /\ shopify' = InFlightEffect(inv["d"], applied)
          /\ created' = IF shopify' # shopify /\ inv["d"].pc = "create"
                        THEN created + 1 ELSE created
    /\ inv' = [w \in DOMAIN inv |-> Idle]
    /\ orderLocks' = {}
    /\ processing' = FALSE
    /\ batch' = <<>>
    /\ promises' = [i \in 1..Len(promises) |->
                       IF promises[i] = "polling" THEN "gone" ELSE promises[i]]
    /\ UNCHANGED <<queue, orders>>
    /\ http' = NoHttp
    /\ UNCHANGED <<delivered, mem>>

\* The create call is accepted by the sink and db.saveOrderMapping rejects: the
\* error is thrown inside the create's try, is no duplicate-email conflict, and
\* leaves processOrder through the finally block.
createOrderSaveFails(w) ==
    LET rec == [inv[w] EXCEPT !.ops = @ \cup {"POST"}, !.sinceCall = 0,
                              !.reissued = 0] IN
    /\ rec.pc = "create"
    /\ created' = created + 1
    /\ shopify' = SinkCreate(shopify, created + 1,
                    formatOrderData([id |-> rec.id], rec.status, rec.financialStatus))
    /\ Finish(w, rec, "dbError")
    /\ UNCHANGED <<queue, orders, processing, batch, promises>>
    /\ http' = NoHttp
    /\ UNCHANGED <<delivered, mem>>

----------------------------------------------------------------------------
(* The in-memory request-queue variant of the service (SpecMem): every sink call
   is a function passed to enqueueRequest and run by processQueue, one at a time.
   A request is [n, fn, valid]: its number, the method that enqueued it and, for
   createOrUpdateOrder, whether the payload passes the validation. *)

InMemoryInit ==
    [requestQueue |-> <<>>,
     processing   |-> FALSE,
     queueTimeout |-> FALSE,    \* a timer of ensureQueueProcessing is armed
     settled      |-> <<>>,     \* per request: "pending", "order", "none", "rejected"
     awaiting     |-> 0,        \* the request the running createOrUpdateOrder awaits
     phase        |-> NULL,     \* and the method that enqueued it
     calls        |-> 0]

\* The numbers requests can have: a createOrUpdateOrder enqueues further ones.
InMemoryRequests == 1..(3 * MaxCalls)

ensureQueueProcessing(m) ==
    IF ~m.processing /\ ~m.queueTimeout
    THEN [m EXCEPT !.queueTimeout = TRUE]
    ELSE m

enqueueRequest(m, fn, valid) ==
    ensureQueueProcessing(
        [m EXCEPT !.requestQueue = Append(@, [n     |-> Len(m.settled) + 1,
                                              fn    |-> fn,
                                              valid |-> valid]),
                  !.settled      = Append(@, "pending")])

\* processQueue once the function of the first request has returned or thrown: the
\* request is shifted and settled, and the loop ends when the queue is empty.
shiftAndSettle(m, result) ==
    LET request == Head(m.requestQueue)
        rest    == Tail(m.requestQueue)
    IN  [m EXCEPT !.requestQueue = rest,
                  !.settled[request.n] = result,
                  !.awaiting = 0,
                  !.phase = NULL,
                  !.processing = (rest # <<>>)]

\* A caller calls createOrUpdateOrder: the whole method body is one request.
createOrUpdateOrderInMemory(valid) ==
    /\ mem.calls < MaxCalls
    /\ mem' = [enqueueRequest(mem, "createOrUpdateOrder", valid) EXCEPT !.calls = @ + 1]
    /\ UNCHANGED <<queue, orders, shopify, created, orderLocks, processing, batch, inv,
                   promises, http, delivered>>

\* cancelOrder or refundOrder calls findOrderByAppmaxId: a request of its own.
findOrderByAppmaxIdInMemory ==
    /\ mem.calls < MaxCalls
    /\ mem' = [enqueueRequest(mem, "findOrderByAppmaxId", TRUE) EXCEPT !.calls = @ + 1]
    /\ UNCHANGED <<queue, orders, shopify, created, orderLocks, processing, batch, inv,
                   promises, http, delivered>>

\* The timer of ensureQueueProcessing fires: processQueue up to its loop.
queueTimeoutFires ==
    /\ mem.queueTimeout
    /\ mem' = IF mem.processing \/ mem.requestQueue = <<>>
              THEN mem
              ELSE [mem EXCEPT !.processing = TRUE, !.queueTimeout = FALSE]
    /\ UNCHANGED <<queue, orders, shopify, created, orderLocks, processing, batch, inv,
                   promises, http, delivered>>

\* One step of the loop of processQueue, which awaits the function of the first
\* request: a lookup or an update is one sink call; createOrUpdateOrder validates,
\* then enqueues a lookup and goes on when that lookup has settled (an order found:
\* it enqueues the update and returns its result; none found and no error so far:
\* it looks up again; an error, which is never retryable: it throws).
processQueueInMemory ==
    /\ mem.processing
    /\ mem.requestQueue # <<>>
    /\ UNCHANGED <<queue, orders, shopify, created, orderLocks, processing, batch, inv,
                   promises, http, delivered>>
    /\ LET request == Head(mem.requestQueue)
           next    == Len(mem.settled) + 1
       IN
       CASE request.fn = "findOrderByAppmaxId" ->
               \E out \in {"order", "none", "rejected"} : mem' = shiftAndSettle(mem, out)
         [] request.fn = "updateOrder" ->
               \E out \in {"order", "rejected"} : mem' = shiftAndSettle(mem, out)
         [] request.fn = "createOrUpdateOrder" /\ mem.awaiting = 0 ->
               IF ~request.valid
               THEN mem' = shiftAndSettle(mem, "rejected")
               ELSE mem' = [enqueueRequest(mem, "findOrderByAppmaxId", TRUE)
                               EXCEPT !.awaiting = next, !.phase = "findOrderByAppmaxId"]
         [] OTHER ->
               /\ mem.settled[mem.awaiting] # "pending"
               /\ LET inner == mem.settled[mem.awaiting] IN
                  CASE inner = "rejected" \/ mem.phase = "updateOrder" ->
                          mem' = shiftAndSettle(mem, inner)
                    [] inner = "order" ->
                          mem' = [enqueueRequest(mem, "updateOrder", TRUE)
                                     EXCEPT !.awaiting = next, !.phase = "updateOrder"]
                    [] OTHER ->
                          mem' = [enqueueRequest(mem, "findOrderByAppmaxId", TRUE)
                                     EXCEPT !.awaiting = next]

NextMem ==
    \/ \E valid \in BOOLEAN : createOrUpdateOrderInMemory(valid)
    \/ findOrderByAppmaxIdInMemory
    \/ queueTimeoutFires
    \/ processQueueInMemory

----------------------------------------------------------------------------
(* Specifications. *)

InitStores ==
    /\ queue = <<>>
    /\ orders = {}
    /\ shopify = {}
    /\ created = 0
    /\ orderLocks = {}
    /\ processing = FALSE
    /\ batch = <<>>
    /\ promises = <<>>
    /\ http = NoHttp
    /\ delivered = 0
    /\ mem = InMemoryInit

Init == InitStores /\ inv = [w \in {"d"} |-> Idle]

InitConc == InitStores /\ inv = [w \in {"c1", "c2"} |-> Idle]

\* A webhook arrives: with an order payload, or without data.
Webhook ==
    \/ \E event \in Events \cup {NULL}, data \in Payloads :
          handleAppmax(event, TRUE, data)
    \/ \E event \in Events \cup {NULL} :
          handleAppmax(event, FALSE, [id |-> 0])

Settle == \E requestId \in 1..Len(queue) : checkStatus(requestId)

Next ==
    \/ Webhook
    \/ Settle
    \/ processQueue
    \/ dispatchRow
    \/ recordOutcome
    \/ \E w \in DOMAIN inv : lockOrder(w)
    \/ \E w \in DOMAIN inv : resolveOrder(w)
    \/ \E w \in DOMAIN inv : createOrder(w)
    \/ \E w \in DOMAIN inv : getOrder(w)
    \/ \E w \in DOMAIN inv : putOrder(w)
    \/ \E w \in DOMAIN inv : mutateOrder(w)

NextConc ==
    \/ \E w \in DOMAIN inv, id \in SourceIds, st \in Statuses : Call(w, id, st)
    \/ \E w \in DOMAIN inv : Return(w)
    \/ \E w \in DOMAIN inv : lockOrder(w)
    \/ \E w \in DOMAIN inv : resolveOrder(w)
    \/ \E w \in DOMAIN inv : createOrder(w)
    \/ \E w \in DOMAIN inv : getOrder(w)
    \/ \E w \in DOMAIN inv : putOrder(w)
    \/ \E w \in DOMAIN inv : mutateOrder(w)

NextApi ==
    \/ Next
    \/ \E id \in SourceIds, st \in ApiStatuses : createOrUpdateOrder(id, st)

NextLoss ==
    \/ Next
    \/ \E o \in shopify : SinkLosesOrder(o)

NextDup ==
    \/ Next
    \/ \E id \in SourceIds : SinkGainsOrder(id)

\* The dispatcher next to one direct call of processOrder (made while a pass
\* runs, for source id 1): the dispatcher can find the order lock held.
InitBusy == InitStores /\ inv = [w \in {"d", "c1"} |-> Idle]

NextBusy ==
    \/ Next
    \/ Call("c1", 1, <<"pending", "pending">>)

NextRate ==
    \/ Next
    \/ \E w \in DOMAIN inv : rateLimited(w)

NextRestart ==
    \/ Next
    \/ Restart
    \/ \E w \in DOMAIN inv : createOrderSaveFails(w)

\* Orders lost and orders gained together; the sink ids issued are capped, as
\* losing and gaining could otherwise alternate for ever.
NextLossDup ==
    \/ NextLoss
    \/ \E id \in SourceIds : created < MaxWebhooks + MaxForeign /\ SinkGainsOrder(id)

NextWindow ==
    \/ NextRestart
    \/ \E o \in shopify : SinkOrderLeavesListing(o)

Spec     == Init /\ [][Next]_vars
SpecConc == InitConc /\ [][NextConc]_vars
SpecLoss == Init /\ [][NextLoss]_vars
SpecDup  == Init /\ [][NextDup]_vars
SpecLossDup == Init /\ [][NextLossDup]_vars
SpecApi  == Init /\ [][NextApi]_vars
SpecMem  == Init /\ [][NextMem]_vars
SpecMemFair == SpecMem /\ WF_vars(queueTimeoutFires) /\ WF_vars(processQueueInMemory)

----------------------------------------------------------------------------
SpecBusy == InitBusy /\ [][NextBusy]_vars
SpecRate == Init /\ [][NextRate]_vars
SpecRestart == Init /\ [][NextRestart]_vars
SpecWindow == Init /\ [][NextWindow]_vars

\* The steps of the dispatcher and of the processOrder it awaits. The pass is
\* re-armed by a timer whatever its outcome, and every await of a pass is on a
\* timer, on the database or on a sink call, all of which come back.
Dispatcher ==
    \/ processQueue
    \/ dispatchRow
    \/ recordOutcome
    \/ \E w \in DOMAIN inv :
          \/ lockOrder(w)
          \/ resolveOrder(w)
          \/ createOrder(w)
          \/ getOrder(w)
          \/ putOrder(w)
          \/ mutateOrder(w)

SpecRestartFair == SpecRestart /\ WF_vars(Dispatcher)

\* Spec with a dispatcher that keeps running and promises that keep polling
\* (checkStatus re-arms its own timer every second).
SpecFair == Spec /\ WF_vars(Dispatcher) /\ WF_vars(Settle)

(* Properties. *)

Processed(i) == queue[i].processed_at # NULL

StatusMutations == {"markPaid", "cancel", "refund"}

\* C1: however many rows are dispatched for one source order id, at most one sink
\* order carrying that id is ever created. The create call is issued only for an
\* id that has neither a mapping nor a sink order; every invocation that finds the
\* order finds it through the Mapping Store and goes on to the update without a
\* create; every mapping row names the one sink order of its source id; and a
\* processed row carries an error only when a sink call failed or the payload
\* lists no product.
C1_IdempotentCreate ==
    /\ created = Cardinality(shopify)
    /\ \A id \in SourceIds : Cardinality(SinkSearch(shopify, id)) <= 1
    /\ \A o \in shopify : findShopifyOrderId(orders, o.appmax_id) = o.id
    /\ \A r \in orders : \E o \in shopify : o.id = r.shopify_id /\ o.appmax_id = r.appmax_id
    /\ \A w \in DOMAIN inv :
          /\ inv[w].pc = "create" =>
                /\ SinkSearch(shopify, inv[w].id) = {}
                /\ findShopifyOrderId(orders, inv[w].id) = 0
          /\ inv[w].pc \in {"get", "put", "status"} =>
                /\ inv[w].resolved = "mapping"
                /\ "POST" \notin inv[w].ops
          /\ "PUT" \in inv[w].ops =>
                /\ inv[w].resolved = "mapping"
                /\ "POST" \notin inv[w].ops
    /\ \A i \in 1..Len(queue) :
          Processed(i) => queue[i].error \in {NULL, "noProducts"} \cup FaultKinds

\* C1 witness: a second paid row for a source id was processed as a pure update,
\* resolved through the mapping the first row's create recorded; one sink order.
C1_SecondRowUpdates ==
    /\ inv["d"].pc = "done"
    /\ inv["d"].result = "ok"
    /\ inv["d"].status = "paid"
    /\ inv["d"].resolved = "mapping"
    /\ "PUT" \in inv["d"].ops
    /\ "POST" \notin inv["d"].ops
    /\ Cardinality(SinkSearch(shopify, inv["d"].id)) = 1
    /\ created = 1
    /\ \E i \in 1..Len(queue) :
          /\ Processed(i)
          /\ queue[i].error = NULL
          /\ queue[i].appmax_id = inv["d"].id
          /\ queue[i].status = "paid"

\* C4: a pending transition that reaches updateOrder on a sink order whose
\* financial state is paid ends at the PUT: unless the PUT itself fails the
\* invocation returns without error, it calls no status mutation, and the sink is
\* left as it was; no invocation with financialStatus pending and a status other
\* than cancelled ever reaches the status mutation step.
C4_PendingAfterPaid ==
    /\ [](\A w \in DOMAIN inv :
            inv[w].financialStatus = "pending" /\ inv[w].status # "cancelled" =>
                /\ inv[w].pc # "status"
                /\ inv[w].ops \cap StatusMutations = {})
    /\ [][\A w \in DOMAIN inv :
            /\ inv[w].pc = "put"
            /\ inv[w].financialStatus = "pending"
            /\ inv[w].status # "cancelled"
            /\ inv[w].current = "paid"
            /\ inv'[w].pc # "put"
            => /\ inv'[w].pc = "done"
               /\ inv'[w].result \in {"ok"} \cup FaultKinds
               /\ shopify' = shopify
               /\ \A o \in SinkSearch(shopify', inv[w].id) : o.financial_status = "paid"]_vars

\* C4 witness: after a paid row created the order as paid, a pending row for the
\* same source id was processed without error, with the PUT as its only call, and
\* the sink order is paid.
C4_PendingRowLeftPaid ==
    /\ inv["d"].pc = "done"
    /\ inv["d"].result = "ok"
    /\ inv["d"].status = "pending"
    /\ inv["d"].financialStatus = "pending"
    /\ inv["d"].ops = {"PUT"}
    /\ \E o \in SinkSearch(shopify, inv["d"].id) : o.financial_status = "paid"
    /\ \E i \in 1..Len(queue) :
          /\ Processed(i)
          /\ queue[i].error = NULL
          /\ queue[i].appmax_id = inv["d"].id
          /\ queue[i].financial_status = "paid"

\* C5: a request carrying an ignore-listed or unknown event name and a data object
\* is answered 200, adds no queue row and makes no sink call, whatever the state.
C5_IgnoredEventsDropped ==
    [][\A event \in OtherEvents, data \in Payloads :
          handleAppmax(event, TRUE, data) =>
              /\ queue' = queue
              /\ promises' = promises
              /\ shopify' = shopify
              /\ http'.status = 200
              /\ http'.sinkCalls = 0]_vars

\* C5 witness: an ignore-listed event was answered 200 while a dispatcher pass was
\* under way on a non-empty queue.
C5_IgnoredWhileBusy ==
    /\ http.event \in {"CustomerInterested", "CustomerCreated"}
    /\ http.status = 200
    /\ http.sinkCalls = 0
    /\ processing
    /\ Len(queue) = 1

\* C6: the lock table holds exactly the ids of the invocations that are between
\* their lockOrder and their exit; an invocation that has returned or thrown holds
\* nothing, so with no invocation in flight the table is empty.
C6_LockReleasedOnExit ==
    /\ orderLocks = {inv[w].id : w \in {v \in DOMAIN inv : inv[v].pc \in Critical}}
    /\ (\A w \in DOMAIN inv : inv[w].pc \in {"idle", "done"}) => orderLocks = {}

\* C6 witness: an invocation threw out of the create call and the table is empty.
C6_ReleasedAfterFailedCreate ==
    /\ inv["d"].pc = "done"
    /\ inv["d"].result \in FaultKinds
    /\ "POST" \in inv["d"].ops
    /\ orderLocks = {}

\* The invocations between their lockOrder and their exit for one source id.
Holders(id) == {w \in DOMAIN inv : inv[w].pc \in Critical /\ inv[w].id = id}

\* The invocation has ended with its create call accepted by the sink.
CompletedCreate(w) ==
    inv[w].pc = "done" /\ inv[w].result = "ok" /\ "POST" \in inv[w].ops

\* C2: two invocations for the same source order id are never both in the
\* resolve/create/update section; the create call is issued only while no sink
\* order and no mapping exists for the id, so of two invocations for one id at most
\* one completes it, there is never a second sink order, and the invocation that
\* did not create resolved the order through the mapping and only updates.
C2_NoOverlapOneCreate ==
    /\ \A w1, w2 \in DOMAIN inv :
          w1 # w2 /\ inv[w1].id = inv[w2].id /\ inv[w1].pc \in Critical
              => inv[w2].pc \notin Critical
    /\ \A w1, w2 \in DOMAIN inv :
          w1 # w2 /\ inv[w1].id = inv[w2].id /\ inv[w1].id # 0
              => ~(CompletedCreate(w1) /\ CompletedCreate(w2))
    /\ \A id \in SourceIds : Cardinality(SinkSearch(shopify, id)) <= 1
    /\ \A w \in DOMAIN inv :
          /\ inv[w].pc = "create" =>
                /\ SinkSearch(shopify, inv[w].id) = {}
                /\ findShopifyOrderId(orders, inv[w].id) = 0
          /\ "PUT" \in inv[w].ops =>
                /\ inv[w].resolved = "mapping"
                /\ "POST" \notin inv[w].ops

\* C2 witness: one caller has created the order and not yet returned; the other,
\* called for the same id, found the mapping and has issued its update.
C2_OneCreatesOtherUpdates ==
    /\ inv["c1"].id = inv["c2"].id
    /\ CompletedCreate("c1")
    /\ inv["c2"].pc = "done"
    /\ inv["c2"].result = "ok"
    /\ inv["c2"].resolved = "mapping"
    /\ "PUT" \in inv["c2"].ops
    /\ created = 1

\* C7: each source order id has at most one lock holder, and the key is in the
\* lock table exactly while there is one.
C7_OneHolderPerId ==
    \A id \in SourceIds :
        /\ Cardinality(Holders(id)) <= 1
        /\ id \in orderLocks <=> Holders(id) # {}

\* C7 witness: one caller holds the lock of an id while the other has polled for
\* it at least once.
C7_HolderAndWaiter ==
    /\ inv["c1"].id = inv["c2"].id
    /\ inv["c1"].pc \in Critical
    /\ inv["c2"].pc = "wait"
    /\ inv["c2"].waited >= LockInterval
    /\ inv["c1"].id \in orderLocks

\* C8: the Mapping Store never holds two rows for one source order id; a step that
\* changes the store leaves every source id that had a row with a row, and adds at
\* most one row, none when it saves for an id that already has one.
C8_OneMappingPerSource ==
    /\ [](\A r1, r2 \in orders : r1.appmax_id = r2.appmax_id => r1 = r2)
    /\ [][/\ \A r \in orders : \E r2 \in orders' : r2.appmax_id = r.appmax_id
          /\ Cardinality(orders') <= Cardinality(orders) + 1
          /\ \A w \in DOMAIN inv :
                inv[w].pc = "create" /\ findShopifyOrderId(orders, inv[w].id) # 0
                    /\ created' # created
                => /\ Cardinality(orders') = Cardinality(orders)
                   /\ findShopifyOrderId(orders', inv[w].id) = created']_vars

\* C8 witness: the sink lost the order a source id was mapped to and the order was
\* created again: two sink orders were created, and the only mapping row names the
\* second.
C8_MappingReplaced ==
    /\ created = 2
    /\ Cardinality(orders) = 1
    /\ \E r \in orders : r.shopify_id = 2

\* C3: a row that failed with a transient error is dispatched again until its
\* attempts counter reaches the retry ceiling: as long as the counter is below the
\* ceiling the row is still among the rows the dispatcher fetches.
C3_RetriedToCeiling ==
    \A i \in 1..Len(queue) :
        queue[i].error = "http5xx" /\ queue[i].attempts < RetryCeiling
            => \E k \in 1..Len(getUnprocessedRequests(queue)) :
                  getUnprocessedRequests(queue)[k] = i

\* C9: the handler selected for each event of Table 1 passes on the pair of states
\* Table 1 gives for it.
C9_ClassifierMatchesTable1 ==
    LET Table1(event) ==
            CASE event \in {"OrderApproved", "OrderPaid", "OrderPaidByPix",
                            "OrderIntegrated", "ChargebackWon"} -> <<"paid", "paid">>
              [] event \in {"PaymentNotAuthorized", "PixExpired", "BoletoExpired"}
                                                          -> <<"cancelled", "cancelled">>
              [] event = "OrderRefund"                   -> <<"refunded", "refunded">>
              [] event = "ChargebackDispute"             -> <<"under_review", "pending">>
              [] event \in {"OrderAuthorized", "PixGenerated", "OrderPixCreated",
                            "OrderBilletCreated"}        -> <<"pending", "pending">>
    IN  http.event \in Events \ (OtherEvents \cup LoggedEvents) =>
            <<Route(http.event).status, Route(http.event).financialStatus>>
                = Table1(http.event)

\* C10: every accepted event of Table 1 adds exactly one row to the queue, with
\* attempts 0 and processed_at null, and the ingestion path makes no sink call for
\* it.
C10_EveryClassifiedEventQueued ==
    [][\A event \in Events \ (OtherEvents \cup LoggedEvents), data \in Payloads :
          data.id # 0 /\ handleAppmax(event, TRUE, data) =>
              /\ Len(queue') = Len(queue) + 1
              /\ SubSeq(queue', 1, Len(queue)) = queue
              /\ queue'[Len(queue')].attempts = 0
              /\ queue'[Len(queue')].processed_at = NULL
              /\ queue'[Len(queue')].appmax_id = data.id
              /\ http'.sinkCalls = 0]_vars

\* C11: when the create call of an invocation with financialStatus paid is
\* accepted by the sink, the Mapping Store holds exactly one row for the source id,
\* naming the id the create returned, and the sink holds exactly one order for the
\* source id: the created one, with financial state paid.
C11_CreateRecordsMappingAndPaid ==
    [][\A w \in DOMAIN inv :
          /\ inv[w].pc = "create"
          /\ inv[w].financialStatus = "paid"
          /\ created' = created + 1
          /\ inv'[w] # inv[w]
          => /\ {r \in orders' : r.appmax_id = inv[w].id}
                   = {[appmax_id |-> inv[w].id, shopify_id |-> created']}
             /\ SinkSearch(shopify', inv[w].id)
                   = {[id |-> created', appmax_id |-> inv[w].id,
                       financial_status |-> "paid", listed |-> TRUE]}
             /\ SinkSearch(shopify, inv[w].id) = {}
             /\ inv'[w].pc = "done"
             /\ inv'[w].result = "ok"]_vars

\* C11 witness: a paid row was dispatched for an id without sink order, its create
\* was accepted, and the mapping row and the paid sink order are there.
C11_PaidOrderCreated ==
    /\ inv["d"].pc = "done"
    /\ inv["d"].result = "ok"
    /\ inv["d"].financialStatus = "paid"
    /\ inv["d"].ops = {"POST"}
    /\ [appmax_id |-> inv["d"].id, shopify_id |-> created] \in orders
    /\ [id |-> created, appmax_id |-> inv["d"].id, financial_status |-> "paid",
        listed |-> TRUE] \in shopify

\* C12: a cancel-class event for a source order that has neither a mapping nor a
\* sink order is a no-op: nothing changes at the sink and, unless the sink call
\* itself fails, no error is answered.
C12_CancelUnknownOrderIsNoOp ==
    [][\A event \in CancelEvents, data \in Payloads :
          /\ data.id # 0
          /\ findShopifyOrderId(orders, data.id) = 0
          /\ SinkSearch(shopify, data.id) = {}
          /\ handleAppmax(event, TRUE, data)
          => /\ shopify' = shopify
             /\ http'.status \in {0, 200} \cup {Intercept(k).statusCode : k \in FaultKinds}]_vars

\* C13: a processOrder that threw leaves its row with attempts incremented and the
\* error recorded, and the pass goes on: the rest of the batch stays to be
\* dispatched, with the dispatcher free to dispatch it; the rows of a batch are
\* rows not yet processed; and once a pass is over the dispatcher is idle, so the
\* next pass can begin whatever the rows' outcomes were.
C13_FailureDoesNotStopDispatcher ==
    /\ [](/\ processing <=> batch # <<>>
          /\ \A k \in 1..Len(batch) : ~Processed(batch[k])
          /\ ~processing => inv["d"].pc = "idle")
    /\ [][/\ processing
          /\ inv["d"].pc = "done"
          /\ inv["d"].result # "ok"
          /\ inv'["d"] # inv["d"]
          => /\ queue'[Head(batch)].attempts = queue[Head(batch)].attempts + 1
             /\ queue'[Head(batch)].error = inv["d"].result
             /\ batch' = Tail(batch)
             /\ inv'["d"].pc = "idle"
             /\ \A i \in 1..Len(queue) : i # Head(batch) => queue'[i] = queue[i]]_vars

\* C13 witness: the first row of the queue failed, and with the pass still under
\* way the second row has been handed to processOrder.
C13_NextRowAfterFailure ==
    /\ Len(queue) = 2
    /\ queue[1].error # NULL
    /\ queue[1].attempts = 1
    /\ processing
    /\ batch = <<2>>
    /\ inv["d"].pc = "find"
    /\ inv["d"].id = queue[2].appmax_id

\* C14: an invocation issues a sink call that follows another of its calls only
\* after the service has let the minimum interval pass since that call (the time
\* the sink takes to answer is the sink's, and may be far below the interval).
C14_CallsSpacedByInterval ==
    \A w \in DOMAIN inv :
        inv[w].pc \in {"refind", "create", "get", "put", "status"}
            => inv[w].sinceCall >= MinRequestInterval

\* C15: the error of a sink call that failed with a transient-class error reaches
\* processOrder's caller only after the call has been attempted MaxAttempts times.
C15_TransientRetriedToCeiling ==
    [][\A w \in DOMAIN inv :
          /\ inv[w].pc \in Critical
          /\ inv'[w].pc = "done"
          /\ inv'[w].result = "http5xx"
          => inv[w].attempt = MaxAttempts]_vars

C17_DuplicateEmailReResolves ==
    [][\A w \in DOMAIN inv :
          /\ inv[w].pc = "create"
          /\ SinkSearch(shopify, inv[w].id) # {}
          /\ inv'[w].pc = "done"
          => inv'[w].result # "http422email"]_vars

\* C18 (as the code has it): an accepted event whose row is enqueued is not
\* answered by the step that enqueues it; its promise settles, and the answer is
\* sent, only once the dispatcher has processed the row: 200 when the row was
\* processed without error, 500 when an error was recorded for it.
C18_AckAfterProcessing ==
    /\ [](\A i \in 1..Len(queue) : promises[i] # "polling" => Processed(i))
    /\ [][/\ Len(queue') > Len(queue) =>
                /\ http'.status = 0
                /\ promises'[Len(queue')] = "polling"
          /\ \A i \in 1..Len(queue) :
                promises[i] = "polling" /\ promises'[i] # "polling" =>
                    /\ Processed(i)
                    /\ queue[i].error = NULL =>
                          promises'[i] = "resolved" /\ http'.status = 200
                    /\ queue[i].error # NULL =>
                          promises'[i] = "rejected" /\ http'.status = 500]_vars

\* C18 witness: a row was processed with an error and the webhook that enqueued it
\* has just been answered 500.
C18_AnsweredAfterFailure ==
    /\ Len(queue) >= 1
    /\ queue[1].error # NULL
    /\ promises[1] = "rejected"
    /\ http.status = 500

\* C18 (as stated): the step that enqueues the row of an accepted event answers
\* the event with success.
C18_AckOnEnqueue ==
    [][Len(queue') > Len(queue) => http'.status = 200]_vars


\* C19: a webhook without event, without data, or whose order carries no source
\* order id is answered 400 at once, adds no row to the queue and causes no call
\* to the sink.
C19_InvalidWebhookRejected ==
    [][\A event \in Events \cup {NULL}, hasData \in BOOLEAN, data \in Payloads :
          /\ event = NULL \/ ~hasData \/ data.id = 0
          /\ handleAppmax(event, hasData, data)
          => /\ http'.status = 400
             /\ http'.sinkCalls = 0
             /\ queue' = queue]_vars

\* C20: every row whose processedAt is set is terminal: it succeeded (lastError
\* null) or its attempts reached the ceiling; a row that failed below the ceiling
\* has processedAt null and is pending again.
C20_ProcessedRowsAreTerminal ==
    \A i \in 1..Len(queue) :
        /\ queue[i].processed_at # NULL =>
              queue[i].error = NULL \/ queue[i].attempts >= RetryCeiling
        /\ queue[i].error # NULL /\ queue[i].attempts < RetryCeiling =>
              queue[i].processed_at = NULL

C22_TimeoutLeavesLockToHolder ==
    [][\A w \in DOMAIN inv :
          /\ inv'[w].waited > inv[w].waited =>
                /\ inv'[w].waited = inv[w].waited + LockInterval
                /\ inv[w].pc = "wait"
          /\ inv[w].pc # "done" /\ inv'[w].pc = "done" /\ inv'[w].result = "lockTimeout" =>
                /\ inv[w].pc = "wait"
                /\ inv'[w].waited = LockTimeout
                /\ inv'[w].ops = {}
                /\ inv'[w].resolved = NULL
                /\ orderLocks' = orderLocks
                /\ \A v \in DOMAIN inv \ {w} :
                      inv[v].pc \in Critical => inv'[v] = inv[v] /\ inv[v].id \in orderLocks'
      ]_vars

\* A caller has given up on the lock while the other caller still holds it.
C22_GaveUpWhileHeld ==
    \E w, v \in DOMAIN inv :
        /\ w # v
        /\ inv[w].pc = "done" /\ inv[w].result = "lockTimeout"
        /\ inv[v].pc \in Critical /\ inv[v].id = inv[w].id
        /\ inv[w].id \in orderLocks

\* C23: a sink call answered 429 is sent again after one sleep of the spacing
\* interval, and no call is sent more than the ceiling of 5 times: after the fifth
\* attempt it is abandoned with an error.
C23_RateLimitRetriesBounded ==
    \A w \in DOMAIN inv :
        /\ inv[w].reissued > 0 => inv[w].sinceCall = MinRequestInterval
        /\ inv[w].reissued + 1 <= MaxAttempts

\* The financial states of a sink order that an update must not regress.
TerminalStates == {"paid", "refunded", "voided"}

\* An update that asks for a less terminal state than the order has.
IsRegression(status, financialStatus, current) ==
    /\ status # "cancelled"
    /\ \/ financialStatus = "pending" /\ current \in TerminalStates
       \/ financialStatus = "paid" /\ current \in {"refunded", "voided"}

\* C24: an update that asks for a less terminal financial state than the sink
\* order has (pending after paid, refunded or voided; paid after refunded or
\* voided) calls no status mutation, leaves the sink as it is and, unless its PUT
\* fails, completes without error.
C24_NoRegressionOfTerminalState ==
    [][/\ \A status \in {"paid", "pending", "authorized", "under_review"},
             financialStatus \in {"paid", "pending"}, current \in TerminalStates :
             IsRegression(status, financialStatus, current) =>
                 updateOrderMutation(status, financialStatus, current) = "none"
       /\ \A w \in DOMAIN inv :
             /\ inv[w].pc = "put"
             /\ inv'[w] # inv[w]
             /\ IsRegression(inv[w].status, inv[w].financialStatus, inv[w].current)
             => /\ shopify' = shopify
                /\ inv'[w].pc \in {"put", "done"}
                /\ inv'[w].ops = {"PUT"}
                /\ inv'[w].pc = "done" =>
                      inv'[w].result \in {"ok", "http404"} \cup FaultKinds
      ]_vars

\* A paid update has completed on an order that the other caller, not yet
\* returned, had created voided: the order is still voided.
C24_PaidAfterVoidedSkipped ==
    \E w, v \in DOMAIN inv :
        /\ inv[v].pc = "done" /\ inv[v].result = "ok" /\ inv[v].ops = {"POST"}
        /\ inv[v].financialStatus = "cancelled"
        /\ inv[w].pc = "done" /\ inv[w].result = "ok" /\ inv[w].ops = {"PUT"}
        /\ inv[w].financialStatus = "paid" /\ inv[w].id = inv[v].id
        /\ created = 1
        /\ \A o \in shopify : o.financial_status = "voided"

\* The columns of a row that are written by the INSERT only.
EnqueuedColumns(row) ==
    [appmax_id        |-> row.appmax_id,
     event_type       |-> row.event_type,
     status           |-> row.status,
     financial_status |-> row.financial_status,
     request_data     |-> row.request_data]

\* C25: the source order id, event type, sync state, financial state and payload
\* of a row, and its place in creation order, never change once it is enqueued;
\* a step that marks a row changes processedAt, attempts and lastError of that one
\* row only; a step that enqueues a row leaves all earlier rows as they are.
C25_EnqueuedColumnsImmutable ==
    [][/\ Len(queue') >= Len(queue)
       /\ \A i \in 1..Len(queue) :
             /\ EnqueuedColumns(queue'[i]) = EnqueuedColumns(queue[i])
             /\ queue'[i] # queue[i] =>
                   /\ Len(queue') = Len(queue)
                   /\ \A j \in 1..Len(queue) : j # i => queue'[j] = queue[j]
      ]_vars

\* Two rows of the same source order: the earlier one has been marked processed,
\* the later one, enqueued before that, is still as it was enqueued.
C25_MarkedNextToPendingRow ==
    /\ Len(queue) = 2
    /\ queue[1].appmax_id = queue[2].appmax_id
    /\ queue[1].processed_at # NULL /\ queue[1].attempts = 1
    /\ queue[2].processed_at = NULL /\ queue[2].attempts = 0
    /\ batch = <<2>>

\* C26: the rows of the retry queue only grow. No step removes or reorders a row
\* (a row keeps its id, its place in the table); a step adds at most one row, at
\* the end (the highest id), and adds it exactly when it is an accepted enqueue
\* call (a webhook of an enqueuing event that is not rejected with 400), so the
\* table has one row and one promise per accepted enqueue call; the
\* dispatcher records an attempt in the row itself, without adding a row.
C26_QueueOnlyGrows ==
    /\ [](Len(queue) = Len(promises) /\ Len(queue) <= delivered)
    /\ [][/\ Len(queue') \in {Len(queue), Len(queue) + 1}
          /\ \A i \in 1..Len(queue) : EnqueuedColumns(queue'[i]) = EnqueuedColumns(queue[i])
          /\ Len(queue') = Len(queue) + 1 <=>
                /\ delivered' = delivered + 1
                /\ http'.event # NULL
                /\ Route(http'.event).call = "createOrUpdateOrder"
                /\ http'.status # 400
          /\ Len(queue') = Len(queue) + 1 =>
                /\ SubSeq(queue', 1, Len(queue)) = queue
                /\ queue'[Len(queue')].attempts = 0
          /\ inv["d"].pc = "done" /\ inv'["d"].pc = "idle" =>
                /\ Len(queue') = Len(queue)
                /\ queue'[Head(batch)].attempts = queue[Head(batch)].attempts + 1
         ]_vars

\* Two enqueue calls were accepted and both rows have been dispatched, one of them
\* failing: the table has those two rows, each with its one attempt.
C26_TwoRowsAfterFailure ==
    /\ Len(queue) = 2
    /\ delivered = 2
    /\ queue[1].attempts = 1 /\ queue[1].error # NULL
    /\ queue[2].attempts = 1 /\ queue[2].error = NULL

\* The invocation has a sink call in flight: the create, the PUT and the status
\* mutation are sent in the same turn in which the answer to the call before them
\* arrived, so an invocation at one of them, on its first attempt, has sent the
\* request and is awaiting the answer.
InFlight(w) ==
    /\ inv[w].pc \in {"create", "put", "status"}
    /\ inv[w].attempt = 1
    /\ inv[w].reissued = 0

\* C27: at most one sink call of the service is in flight: while a call of the
\* dispatcher's row is awaiting its answer, the ingestion path (the cancel and
\* refund handlers) makes no sink call of its own.
C27_OneCallInFlight ==
    \A w \in DOMAIN inv : InFlight(w) => http.sinkCalls = 0

\* The row is one the dispatcher may fetch.
Pending(row) == row.processed_at = NULL /\ row.attempts < RetryCeiling

\* C28: a pass fetches exactly the rows with processedAt null and attempts below
\* 3, oldest first, and dispatches them in that order, one at a time, each while
\* it is still such a row; a row with 3 attempts or more is never dispatched and
\* no row has more than 3 attempts.
C28_PassDispatchesPendingRowsInOrder ==
    /\ [](/\ \A i \in 1..Len(queue) : queue[i].attempts <= RetryCeiling
          /\ \A k \in 1..Len(batch) :
                /\ batch[k] \in 1..Len(queue)
                /\ Pending(queue[batch[k]])
                /\ k > 1 => batch[k - 1] < batch[k])
    /\ [][/\ ~processing /\ processing' =>
                /\ \A i \in 1..Len(queue) :
                      Pending(queue[i]) <=> \E k \in 1..Len(batch') : batch'[k] = i
                /\ inv'["d"].pc = "idle"
          /\ processing /\ processing' => batch' \in {batch, Tail(batch)}
          /\ inv["d"].pc = "idle" /\ inv'["d"].pc # "idle" =>
                /\ processing /\ batch' = batch
                /\ inv'["d"].id = queue[Head(batch)].appmax_id
                /\ inv'["d"].status = queue[Head(batch)].status
                /\ inv'["d"].financialStatus = queue[Head(batch)].financial_status
          /\ batch' # batch /\ processing =>
                /\ inv["d"].pc = "done" /\ inv'["d"].pc = "idle"
                /\ ~Pending(queue'[Head(batch)])
         ]_vars

\* A pass fetched two rows and is processing the older one; the newer one waits.
C28_OlderRowFirst ==
    /\ batch = <<1, 2>>
    /\ inv["d"].pc \notin {"idle", "done"}
    /\ inv["d"].id = queue[1].appmax_id
    /\ queue[1].appmax_id # queue[2].appmax_id

\* C29: the create call is issued only by an invocation that holds the order lock
\* and whose resolution found no sink order: the Mapping Store had no entry and
\* the search by tag found nothing, or the mapped sink order no longer exists. A
\* mapped id is resolved through the Mapping Store, which is left as it is; only
\* an unmapped id is resolved by the search, and the order the search finds is
\* written to the Mapping Store.
C29_CreateOnlyAfterResolution ==
    /\ [](\A w \in DOMAIN inv :
             inv[w].pc = "create" => inv[w].id \in orderLocks /\ inv[w].resolved = "none")
    /\ [][\A w \in DOMAIN inv :
             LET id     == inv[w].id
                 mapped == findShopifyOrderId(orders, id)
             IN
             /\ inv[w].pc # "create" /\ inv'[w].pc = "create" =>
                   /\ inv[w].pc = "find"
                   /\ id \in orderLocks /\ id \in orderLocks'
                   /\ \/ mapped = 0 /\ SinkSearch(shopify, id) = {}
                      \/ mapped # 0 /\ SinkGet(shopify, mapped) = {}
             /\ "POST" \in inv'[w].ops /\ "POST" \notin inv[w].ops =>
                   inv[w].pc = "create" /\ id \in orderLocks
             /\ inv[w].resolved = NULL /\ inv'[w].resolved = "mapping" =>
                   /\ mapped # 0 /\ inv'[w].existing = mapped
                   /\ orders' = orders
             /\ inv[w].resolved = NULL /\ inv'[w].resolved = "search" =>
                   /\ mapped = 0
                   /\ \E o \in SinkSearch(shopify, id) :
                         /\ inv'[w].existing = o.id
                         /\ findShopifyOrderId(orders', id) = o.id
         ]_vars

\* An invocation has resolved its source id by the search and gone on to the
\* update: the Mapping Store now names the order it found.
C29_FoundBySearchAndMapped ==
    \E w \in DOMAIN inv :
        /\ inv[w].pc = "done" /\ inv[w].result = "ok"
        /\ inv[w].resolved = "search"
        /\ inv[w].ops = {"PUT"}
        /\ \E o \in SinkSearch(shopify, inv[w].id) :
              findShopifyOrderId(orders, inv[w].id) = o.id

\* C30: an invocation of processOrder that completes successfully has made the
\* create call or the update call, never both and never neither, and at most one
\* status mutation, which only an update makes; and no invocation makes any of
\* these calls a second time.
C30_OneCreateOrUpdatePerInvocation ==
    /\ [](\A w \in DOMAIN inv :
             inv[w].pc = "done" /\ inv[w].result = "ok" =>
                 /\ ("POST" \in inv[w].ops) # ("PUT" \in inv[w].ops)
                 /\ Cardinality(inv[w].ops \cap StatusMutations) <= 1
                 /\ "POST" \in inv[w].ops => inv[w].ops = {"POST"})
    /\ [][\A w \in DOMAIN inv :
             /\ inv'[w] # inv[w] /\ inv[w].pc = "create" => inv[w].ops = {}
             /\ inv'[w] # inv[w] /\ inv[w].pc = "put" => inv[w].ops = {}
             /\ inv'[w] # inv[w] /\ inv[w].pc = "status" => inv[w].ops = {"PUT"}
         ]_vars

\* An update that marked the order paid has completed: one PUT, one mutation.
C30_UpdateWithOneMutation ==
    \E w \in DOMAIN inv :
        /\ inv[w].pc = "done" /\ inv[w].result = "ok"
        /\ inv[w].ops = {"PUT", "markPaid"}

\* C31: when an invocation of processOrder completes successfully, the Mapping
\* Store holds exactly one entry for its source id, and that entry names the sink
\* order the invocation created (the id the sink assigned) or updated (the order
\* resolution returned, through the Mapping Store or through the search).
C31_MappingNamesHandledOrder ==
    [][\A w \in DOMAIN inv :
          inv[w].pc # "done" /\ inv'[w].pc = "done" /\ inv'[w].result = "ok" =>
              LET id  == inv[w].id
                  sid == IF inv[w].pc = "create" THEN created + 1 ELSE inv[w].existing
              IN
              /\ sid # 0
              /\ findShopifyOrderId(orders', id) = sid
              /\ \A r \in orders' : r.appmax_id = id => r.shopify_id = sid
              /\ inv[w].pc = "create" => SinkGet(shopify', sid) # {}
      ]_vars

\* An update has completed on an order the Mapping Store did not know: the search
\* found it and the entry was written.
C31_UpdatedOrderLearned ==
    \E w \in DOMAIN inv :
        /\ inv[w].pc = "done" /\ inv[w].result = "ok"
        /\ inv[w].resolved = "search" /\ "PUT" \in inv[w].ops
        /\ created = 1
        /\ orders = {[appmax_id |-> inv[w].id, shopify_id |-> 1]}

\* Row i is the row the dispatcher has handed to processOrder.
Dispatched(i) ==
    /\ batch # <<>>
    /\ Head(batch) = i
    /\ inv["d"].pc # "idle"

\* C32: when the process stops and starts again, the lock table is empty and the
\* busy flag is clear, the queue rows and the mappings are as last written, and
\* the row that was being processed is still pending with its attempts unchanged;
\* and, unless the process keeps being restarted forever, every pending row is
\* eventually dispatched.
C32_RestartResumesPendingRows ==
    /\ [][Restart =>
             /\ orderLocks' = {} /\ ~processing' /\ batch' = <<>>
             /\ queue' = queue /\ orders' = orders
             /\ inv["d"].pc # "idle" =>
                   /\ Pending(queue'[Head(batch)])
                   /\ queue'[Head(batch)].attempts = queue[Head(batch)].attempts
         ]_vars
    /\ (<>[][~Restart]_vars) =>
          \A i \in 1..MaxWebhooks :
              (i <= Len(queue) /\ Pending(queue[i])) ~> (i <= Len(queue) /\ Dispatched(i))

\* The row interrupted by a restart is being processed again by the new process.
C32_InterruptedRowDispatchedAgain ==
    /\ Len(promises) >= 1
    /\ promises[1] = "gone"
    /\ Dispatched(1)
    /\ inv["d"].pc = "find"

\* C33: one pass at a time and one processOrder at a time: an invocation exists
\* only inside a pass, the busy flag is set exactly while a pass has rows left,
\* the lock table holds nothing but the key of the invocation in its locked
\* section, so lockOrder finds the key free, never waits and never times out.
C33_LockNeverContended ==
    /\ processing <=> batch # <<>>
    /\ ~processing => inv["d"].pc = "idle"
    /\ inv["d"].pc \in Critical => orderLocks = {inv["d"].id}
    /\ inv["d"].pc \notin Critical => orderLocks = {}
    /\ inv["d"].pc # "wait"
    /\ inv["d"].waited = 0
    /\ inv["d"].result # "lockTimeout"

\* The second row of a source order has taken the lock at once, after the first
\* row of the same order had failed.
C33_LockFreeAfterFailedRow ==
    /\ Len(queue) = 2
    /\ queue[1].appmax_id = queue[2].appmax_id
    /\ queue[1].error # NULL
    /\ Dispatched(2)
    /\ inv["d"].pc = "find"
    /\ orderLocks = {queue[2].appmax_id}

C35_EveryPromiseSettles ==
    /\ [](\A i \in 1..Len(promises) :
             /\ promises[i] = "resolved" => Processed(i) /\ queue[i].error = NULL
             /\ promises[i] = "rejected" => Processed(i) /\ queue[i].error # NULL)
    /\ \A i \in 1..MaxWebhooks :
          (i <= Len(promises) /\ promises[i] = "polling")
              ~> (i <= Len(promises) /\ promises[i] \in {"resolved", "rejected"})

\* Both promises have settled, one each way.
C35_OneResolvedOneRejected ==
    /\ Len(promises) = 2
    /\ promises[1] = "rejected"
    /\ promises[2] = "resolved"

\* The sink orders that carry the source id, listed or not.
SinkOrdersOf(s, appmaxId) == {o \in s : o.appmax_id = appmaxId}

\* C36: when a create was accepted by the sink and the mapping was not written
\* (the write failed, or the process stopped before it), an invocation for the
\* same source id whose search is answered while the order is still within the
\* listing window resolves the order by the search, writes the mapping and goes
\* on to the update, without a create; a second sink order of a source id is
\* created only when every earlier one has left the listing or was deleted.
C36_UnmappedOrderFoundBySearch ==
    /\ [](\A id \in SourceIds : Cardinality(SinkSearch(shopify, id)) <= 1)
    /\ [][\A id \in SourceIds :
             Cardinality(SinkOrdersOf(shopify', id)) > Cardinality(SinkOrdersOf(shopify, id))
                 => SinkSearch(shopify, id) = {}]_vars
    /\ [][\A w \in DOMAIN inv :
             LET id == inv[w].id IN
             /\ inv[w].pc = "find" /\ inv'[w].pc \notin {"find", "idle"}
             /\ findShopifyOrderId(orders, id) = 0
             /\ SinkSearch(shopify, id) # {}
             /\ inv'[w].result = NULL
             => /\ inv'[w].pc = "get"
                /\ inv'[w].resolved = "search"
                /\ \E o \in SinkSearch(shopify, id) :
                      /\ inv'[w].existing = o.id
                      /\ findShopifyOrderId(orders', id) = o.id
                /\ shopify' = shopify /\ created' = created
         ]_vars

\* The row whose create was accepted without the mapping being written has been
\* processed again after a restart, as an update of the order the first attempt
\* created: there is one sink order, and the mapping names it.
C36_SecondAttemptUpdated ==
    /\ Len(queue) = 1
    /\ promises[1] = "gone"
    /\ inv["d"].pc = "done" /\ inv["d"].result = "ok"
    /\ inv["d"].resolved = "search" /\ "PUT" \in inv["d"].ops
    /\ Cardinality(shopify) = 1
    /\ \E o \in shopify : orders = {[appmax_id |-> queue[1].appmax_id, shopify_id |-> o.id]}

\* C36 as stated: whenever a sink order exists without its mapping, the next
\* invocation finds it, so that no source id ever has a second sink order.
C36_NeverSecondSinkOrder ==
    \A id \in SourceIds : Cardinality(SinkOrdersOf(shopify, id)) <= 1

\* C37: when the Mapping Store names a sink order that the sink no longer has,
\* resolution returns none and writes nothing, whether or not the listing holds
\* an order carrying the source id, and the invocation goes on to the create; the
\* accepted create replaces the entry of the source id by the new sink id, so the
\* Mapping Store has one entry for the id.
C37_StaleMappingReplacedByCreate ==
    [][\A w \in DOMAIN inv :
          LET id     == inv[w].id
              mapped == findShopifyOrderId(orders, id)
          IN
          /\ mapped # 0 /\ SinkGet(shopify, mapped) = {} =>
                /\ inv[w].pc = "find" /\ inv'[w].pc \notin {"find", "done"} =>
                      /\ inv'[w].pc = "create"
                      /\ inv'[w].resolved = "none"
                      /\ orders' = orders
                /\ inv[w].pc = "create" /\ inv'[w].pc = "done" /\ inv'[w].result = "ok" =>
                      /\ {r \in orders' : r.appmax_id = id}
                            = {[appmax_id |-> id, shopify_id |-> created + 1]}
                      /\ created + 1 # mapped
                      /\ SinkGet(shopify', created + 1) # {}
      ]_vars

\* The mapped order was deleted at the sink while the listing held another order
\* of the same source id; the invocation has created a new order all the same and
\* the Mapping Store names the new one.
C37_CreatedDespiteListedOrder ==
    /\ inv["d"].pc = "done" /\ inv["d"].result = "ok"
    /\ inv["d"].ops = {"POST"}
    /\ created = 3
    /\ orders = {[appmax_id |-> inv["d"].id, shopify_id |-> 3]}
    /\ Cardinality(SinkSearch(shopify, inv["d"].id)) = 2

C39_EveryRequestSettles ==
    /\ \A n \in InMemoryRequests :
          (n <= Len(mem.settled)) ~> (n <= Len(mem.settled) /\ mem.settled[n] # "pending")
    /\ []<>(mem.requestQueue = <<>>)
=============================================================================
